---- MODULE Spec2Model ----
(***************************************************************************)
(* A model of pong-russh: the shared Game (ball, paddles, score, serve     *)
(* timer, seats), the per-connection SSH handlers that mutate it, the      *)
(* registry of terminals and the 16 ms tick loop that updates and draws.   *)
(*                                                                         *)
(* Numbers.  Positions are f32 in [0.0, 1.0] in the source; here they are  *)
(* integers in units of 1/Scale (Scale = 100000), velocities are in units  *)
(* of 1/100 of the field per second and times are integer milliseconds,    *)
(* so that  pos += vel * dt  is the integer  pos + vel * dt_ms.            *)
(*                                                                         *)
(* Time.  The code holds Instants and only ever reads their elapsed().     *)
(* An Option<Instant> is modelled by None or by the age of the instant in  *)
(* ms, which is what elapsed() returns; the passing of time ages every     *)
(* instant.  The age of serve_time is kept up to SERVE_DURATION: the code  *)
(* only compares it with SERVE_DURATION.                                   *)
(***************************************************************************)
EXTENDS Integers, FiniteSets, Sequences, TLC

(***************************************************************************)
(* Bounds of the exploration.                                              *)
(***************************************************************************)
MaxClients == 3        \* connections ever accepted (client_counter)
MaxPlayers == 2        \* the same, where the clock and the ball are explored
MaxChans   == 2        \* session channels one connection holds open at once
MaxScore   == 1        \* points played before the exploration stops
MaxReach   == 1        \* paddle moves away from the centre that are explored
MaxGap     == 1000     \* longest time between two runs of the tick loop, ms
QueueCap   == 1        \* writes a session holds queued before a sender has to wait
Deltas     == {500}    \* amounts of time that pass in one step, ms
Sizes      == {<<80, 24>>, <<40, 12>>}  \* viewports a client reports
Viewport   == <<80, 24>>  \* the viewport where resizing is not explored

(***************************************************************************)
(* Program constants.                                                      *)
(***************************************************************************)
Scale          == 100000   \* 1.0 of the playfield
SERVE_DURATION == 1500     \* Game::SERVE_DURATION, ms
HEIGHT         == 15000    \* Paddle::HEIGHT = 0.15
MOVE_DELTA     == 2500     \* Paddle::MOVE_DELTA = 0.025
TICK_PERIOD    == 16       \* sleep of the tick loop, ms
None           == -1       \* Option::None of an id or an Instant
VALID_Y        == <<-69, -46, -23, 0, 23, 46, 69>>

Clients == 1..MaxClients
NoTerminal == <<>>

Abs(n) == IF n < 0 THEN -n ELSE n

\* f32::round of the rational n / d (d > 0): nearest integer, halves away from zero
Round(n, d) ==
  IF n >= 0 THEN (2 * n + d) \div (2 * d) ELSE -((2 * (-n) + d) \div (2 * d))

(***************************************************************************)
(* physics.rs, paddle.rs, ball.rs                                          *)
(***************************************************************************)
Point(x, y) == [x |-> x, y |-> y]
CENTER == Point(Scale \div 2, Scale \div 2)
Velocity(x, y) == [x |-> x, y |-> y]
DEFAULT_INITIAL_VELOCITY == Velocity(26, -23)

Paddle_new(x, y) == [pos |-> Point(x, y)]

Max(a, b) == IF a >= b THEN a ELSE b
Min(a, b) == IF a <= b THEN a ELSE b

\* a move up that does not stop at the top of the field
Paddle_move_up_NoClamp(p) ==
  [p EXCEPT !.pos.y = p.pos.y - MOVE_DELTA]

Paddle_move_up(p) ==
  [p EXCEPT !.pos.y = Max(p.pos.y - MOVE_DELTA, HEIGHT \div 2)]

Paddle_move_down(p) ==
  [p EXCEPT !.pos.y = Min(p.pos.y + MOVE_DELTA, Scale - HEIGHT \div 2)]

Ball_new == [pos |-> CENTER, vel |-> DEFAULT_INITIAL_VELOCITY]

\* a serve that gives the ball its initial velocity again
Ball_serve_ResetsVelocity(b) == [pos |-> CENTER, vel |-> DEFAULT_INITIAL_VELOCITY]

Ball_serve(b) == [b EXCEPT !.pos = CENTER]

\* a y-range test that takes the ends of the paddle as hits
Hits_Inclusive(p, y) == (p.pos.y - HEIGHT \div 2 <= y) /\ (y <= p.pos.y + HEIGHT \div 2)

\* the paddle's y-range test of Ball::update (strict on both sides)
Hits(p, y) == (p.pos.y - HEIGHT \div 2 < y) /\ (y < p.pos.y + HEIGHT \div 2)

\* an index taken with floor in the place of round
BounceIndex_Floor(p, y) == ((3 * (y - p.pos.y)) \div (HEIGHT \div 2)) + 3

\* index = ((angle * 3.0).round() as i32 + 3) as usize, angle = distance / (HEIGHT / 2)
BounceIndex(p, y) == Round(3 * (y - p.pos.y), HEIGHT \div 2) + 3

\* an update that reflects the position at a wall but keeps vel.y
Ball_update_NoFlip(b, dt, player1, player2) ==
  LET x1  == b.pos.x + b.vel.x * dt
      y1  == b.pos.y + b.vel.y * dt
      y2  == IF y1 < 0 THEN -y1 ELSE IF y1 > Scale THEN 2 * Scale - y1 ELSE y1
      vy2 == b.vel.y
  IN  IF x1 < 0
      THEN IF Hits(player1, y2)
           THEN [pos |-> Point(-x1, y2),
                 vel |-> Velocity(-b.vel.x, VALID_Y[BounceIndex(player1, y2) + 1])]
           ELSE [pos |-> Point(x1, y2), vel |-> Velocity(b.vel.x, vy2)]
      ELSE IF x1 > Scale /\ Hits(player2, y2)
           THEN [pos |-> Point(2 * Scale - x1, y2),
                 vel |-> Velocity(-b.vel.x, VALID_Y[BounceIndex(player2, y2) + 1])]
           ELSE [pos |-> Point(x1, y2), vel |-> Velocity(b.vel.x, vy2)]

\* Ball::update with duration in ms
Ball_update(b, dt, player1, player2) ==
  LET x1  == b.pos.x + b.vel.x * dt
      y1  == b.pos.y + b.vel.y * dt
      y2  == IF y1 < 0 THEN -y1 ELSE IF y1 > Scale THEN 2 * Scale - y1 ELSE y1
      vy2 == IF y1 < 0 \/ y1 > Scale THEN -b.vel.y ELSE b.vel.y
  IN  IF x1 < 0
      THEN IF Hits(player1, y2)
           THEN [pos |-> Point(-x1, y2),
                 vel |-> Velocity(-b.vel.x, VALID_Y[BounceIndex(player1, y2) + 1])]
           ELSE [pos |-> Point(x1, y2), vel |-> Velocity(b.vel.x, vy2)]
      ELSE IF x1 > Scale /\ Hits(player2, y2)
           THEN [pos |-> Point(2 * Scale - x1, y2),
                 vel |-> Velocity(-b.vel.x, VALID_Y[BounceIndex(player2, y2) + 1])]
           ELSE [pos |-> Point(x1, y2), vel |-> Velocity(b.vel.x, vy2)]

(***************************************************************************)
(* game.rs                                                                 *)
(***************************************************************************)
Game_new ==
  [ball         |-> Ball_new,
   left_paddle  |-> Paddle_new(0, Scale \div 2),
   right_paddle |-> Paddle_new(Scale, Scale \div 2),
   score        |-> [i \in {0, 1} |-> 0],
   serve_time   |-> None,
   last_update  |-> None,
   clients      |-> [i \in {0, 1} |-> None]]

\* a serve that keeps the timestamp of the last update
serve_KeepsLastUpdate(g) ==
  [g EXCEPT !.ball = Ball_serve(g.ball), !.serve_time = 0]

\* Game::serve; Some(Instant::now()) is an instant of age 0
serve(g) ==
  [g EXCEPT !.ball = Ball_serve(g.ball), !.serve_time = 0, !.last_update = None]

\* a connect that tries seat 1 before seat 0
connect_player_HighestSeat(g, client_id) ==
  IF g.clients[0] # None /\ g.clients[1] # None
  THEN [game |-> g, ok |-> FALSE]
  ELSE LET seated == IF g.clients[1] = None
                     THEN [g EXCEPT !.clients[1] = client_id]
                     ELSE [g EXCEPT !.clients[0] = client_id]
       IN  [game |-> IF \A i \in {0, 1} : seated.clients[i] # None
                     THEN serve([seated EXCEPT !.score = [i \in {0, 1} |-> 0]])
                     ELSE seated,
            ok   |-> TRUE]

\* a connect that restarts the match before it finds the game full
connect_player_ResetWhenFull(g, client_id) ==
  IF g.clients[0] # None /\ g.clients[1] # None
  THEN [game |-> serve([g EXCEPT !.score = [i \in {0, 1} |-> 0]]), ok |-> FALSE]
  ELSE LET seated == IF g.clients[0] = None
                     THEN [g EXCEPT !.clients[0] = client_id]
                     ELSE [g EXCEPT !.clients[1] = client_id]
       IN  [game |-> IF \A i \in {0, 1} : seated.clients[i] # None
                     THEN serve([seated EXCEPT !.score = [i \in {0, 1} |-> 0]])
                     ELSE seated,
            ok   |-> TRUE]

\* a connect that serves but keeps the score when the second seat fills
connect_player_KeepsScore(g, client_id) ==
  IF g.clients[0] # None /\ g.clients[1] # None
  THEN [game |-> g, ok |-> FALSE]
  ELSE LET seated == IF g.clients[0] = None
                     THEN [g EXCEPT !.clients[0] = client_id]
                     ELSE [g EXCEPT !.clients[1] = client_id]
       IN  [game |-> IF \A i \in {0, 1} : seated.clients[i] # None
                     THEN serve(seated)
                     ELSE seated,
            ok   |-> TRUE]

\* Game::connect_player: the game afterwards and Ok (TRUE) / Err (FALSE)
connect_player(g, client_id) ==
  IF g.clients[0] # None /\ g.clients[1] # None
  THEN [game |-> g, ok |-> FALSE]
  ELSE LET seated == IF g.clients[0] = None
                     THEN [g EXCEPT !.clients[0] = client_id]
                     ELSE [g EXCEPT !.clients[1] = client_id]
       IN  [game |-> IF \A i \in {0, 1} : seated.clients[i] # None
                     THEN serve([seated EXCEPT !.score = [i \in {0, 1} |-> 0]])
                     ELSE seated,
            ok   |-> TRUE]

\* a disconnect that also stops the match
disconnect_player_Pauses(g, client_id) ==
  IF g.clients[0] = client_id
  THEN [g EXCEPT !.clients[0] = None, !.serve_time = None]
  ELSE IF g.clients[1] = client_id
  THEN [g EXCEPT !.clients[1] = None, !.serve_time = None]
  ELSE g

\* Game::disconnect_player: the first seat holding client_id is cleared
disconnect_player(g, client_id) ==
  IF g.clients[0] = client_id THEN [g EXCEPT !.clients[0] = None]
  ELSE IF g.clients[1] = client_id THEN [g EXCEPT !.clients[1] = None]
  ELSE g

\* a move up routed to the paddle of the other seat
move_up_OtherPaddle(g, client_id) ==
  IF g.clients[0] = client_id
  THEN [g EXCEPT !.right_paddle = Paddle_move_up(g.right_paddle)]
  ELSE IF g.clients[1] = client_id
  THEN [g EXCEPT !.left_paddle = Paddle_move_up(g.left_paddle)]
  ELSE g

\* Game::move_up
move_up(g, client_id) ==
  IF g.clients[0] = client_id
  THEN [g EXCEPT !.left_paddle = Paddle_move_up(g.left_paddle)]
  ELSE IF g.clients[1] = client_id
  THEN [g EXCEPT !.right_paddle = Paddle_move_up(g.right_paddle)]
  ELSE g

\* Game::move_down
move_down(g, client_id) ==
  IF g.clients[0] = client_id
  THEN [g EXCEPT !.left_paddle = Paddle_move_down(g.left_paddle)]
  ELSE IF g.clients[1] = client_id
  THEN [g EXCEPT !.right_paddle = Paddle_move_down(g.right_paddle)]
  ELSE g

\* an early return that is not taken while no serve was ever made
Holding_UnsetRuns(g) == g.serve_time # None /\ g.serve_time < SERVE_DURATION

\* an early return that does not wait for the hold to be over
Holding_NoWait(g) == g.serve_time = None

\* the early return of Game::update: no serve yet, or the hold is not over
Holding(g) == g.serve_time = None \/ g.serve_time < SERVE_DURATION

\* an update that credits a point to the seat whose edge the ball left by
update_OwnEdge(g) ==
  IF Holding(g) THEN g
  ELSE LET duration == IF g.last_update = None THEN 0 ELSE g.last_update
           g1 == [g EXCEPT !.last_update = 0,
                           !.ball = Ball_update(g.ball, duration,
                                                g.left_paddle, g.right_paddle)]
       IN  IF g1.ball.pos.x < 0
           THEN serve([g1 EXCEPT !.score[0] = @ + 1])
           ELSE IF g1.ball.pos.x > Scale
           THEN serve([g1 EXCEPT !.score[1] = @ + 1])
           ELSE g1

\* Game::update
update(g) ==
  IF Holding(g) THEN g
  ELSE LET duration == IF g.last_update = None THEN 0 ELSE g.last_update
           g1 == [g EXCEPT !.last_update = 0,
                           !.ball = Ball_update(g.ball, duration,
                                                g.left_paddle, g.right_paddle)]
       IN  IF g1.ball.pos.x < 0
           THEN serve([g1 EXCEPT !.score[1] = @ + 1])
           ELSE IF g1.ball.pos.x > Scale
           THEN serve([g1 EXCEPT !.score[0] = @ + 1])
           ELSE g1

\* d ms pass: every instant the game holds is d ms older
Elapse(g, d) ==
  [g EXCEPT !.serve_time = IF @ = None THEN None ELSE Min(@ + d, SERVE_DURATION),
            !.last_update = IF @ = None THEN None ELSE @ + d]

(***************************************************************************)
(* server.rs: the state shared by the tick loop and the handlers           *)
(***************************************************************************)
VARIABLES
  game,            \* AppServer.game: the Game behind its mutex
  terminals,       \* AppServer.terminals: client id -> viewport of its terminal
  client_counter,  \* AppServer.client_counter
  chans,           \* per connection: session channels it holds open
  dead,            \* connections whose handler returned Err (session torn down)
  closing,         \* connections inside channel_close, between its two locks
  tick_pc,         \* position of the tick loop: "sleep", "lock", "draw", "render"
  pending,         \* terminals the running draw loop has not reached yet
  slept,           \* ms since the tick loop went to sleep
  target,          \* the terminal the draw loop is at (None between draws)
  outq,            \* per connection: frames sent to its session, not yet written out
  shown            \* the views of the game drawn so far by the running draw loop

vars == <<game, terminals, client_counter, chans, dead, closing, tick_pc,
          pending, slept, target, outq, shown>>

Init ==
  /\ game = Game_new
  /\ terminals = [c \in Clients |-> NoTerminal]
  /\ client_counter = 0
  /\ chans = [c \in Clients |-> 0]
  /\ dead = {}
  /\ closing = {}
  /\ tick_pc = "sleep"
  /\ pending = {}
  /\ slept = 0
  /\ target = None
  /\ outq = [c \in Clients |-> 0]
  /\ shown = {}

\* Server::new_client: the next connection gets the next id
NewClient(limit) ==
  /\ client_counter < limit
  /\ client_counter' = client_counter + 1
  /\ UNCHANGED <<game, terminals, chans, dead, closing, tick_pc, pending, slept,
                 target, outq, shown>>

\* connection c exists, its session is up and its handler is not inside a call
Ready(c) == c \in 1..client_counter /\ c \notin dead /\ c \notin closing

\* the game mutex is held by the tick loop while it renders one terminal (the
\* handlers and Game::update hold it within one step)
GameFree == tick_pc # "render"

\* the terminals mutex is held by the tick loop over its whole for loop
TerminalsFree == tick_pc \notin {"draw", "render"}

\* AppHandler::channel_open_session: Ok(true), or the Err of connect_player,
\* on which the session of this connection ends
ChannelOpenSession(c) ==
  /\ Ready(c)
  /\ GameFree
  /\ chans[c] < MaxChans
  /\ LET r == connect_player(game, c)
     IN  /\ game' = r.game
         /\ chans' = IF r.ok THEN [chans EXCEPT ![c] = @ + 1] ELSE chans
         /\ dead' = IF r.ok THEN dead ELSE dead \cup {c}
  /\ UNCHANGED <<terminals, client_counter, closing, tick_pc, pending, slept,
                 target, outq, shown>>

\* AppHandler::channel_close, first statement: disconnect_player under the game lock
ChannelCloseGame(c) ==
  /\ Ready(c)
  /\ GameFree
  /\ chans[c] > 0
  /\ game' = disconnect_player(game, c)
  /\ closing' = closing \cup {c}
  /\ UNCHANGED <<terminals, client_counter, chans, dead, tick_pc, pending, slept,
                 target, outq, shown>>

\* AppHandler::channel_close, second statement: remove under the terminals lock
ChannelCloseTerminals(c) ==
  /\ c \in closing
  /\ TerminalsFree
  /\ terminals' = [terminals EXCEPT ![c] = NoTerminal]
  /\ closing' = closing \ {c}
  /\ chans' = [chans EXCEPT ![c] = @ - 1]
  /\ UNCHANGED <<game, client_counter, dead, tick_pc, pending, slept, target,
                 outq, shown>>

\* payloads of a data event: the bytes "w", "s", "q", the escape sequences of
\* the Up and Down arrows, the bytes of Ctrl-C, Ctrl-Q and Esc, anything else
Keys == {"w", "s", "q", "Up", "Down", "Ctrl-C", "Ctrl-Q", "Esc", "other"}

\* AppHandler::data: the payloads on which it calls session.close(channel_id)
SessionClose(key) == key = "q"

\* a match whose default arm moves the paddle up
data_DefaultMoves(g, c, key) ==
  CASE key = "s" -> move_down(g, c)
    [] key = "q" -> g
    [] OTHER -> move_up(g, c)

\* AppHandler::data: the game after the match on the payload
data(g, c, key) ==
  CASE key = "w" -> move_up(g, c)
    [] key = "s" -> move_down(g, c)
    [] OTHER -> g

\* AppHandler::data (it returns Ok(()) on every payload)
Data(c, key) ==
  /\ Ready(c)
  /\ chans[c] > 0
  /\ key \in {"w", "s"} => GameFree
  /\ game' = data(game, c, key)
  /\ UNCHANGED <<terminals, client_counter, chans, dead, closing, tick_pc,
                 pending, slept, target, outq, shown>>

\* AppHandler::pty_request
PtyRequest(c, size) ==
  /\ Ready(c)
  /\ chans[c] > 0
  /\ TerminalsFree
  /\ terminals' = [terminals EXCEPT ![c] = size]
  /\ UNCHANGED <<game, client_counter, chans, dead, closing, tick_pc, pending,
                 slept, target, outq, shown>>

\* AppHandler::window_change_request
WindowChangeRequest(c, size) ==
  /\ Ready(c)
  /\ chans[c] > 0
  /\ TerminalsFree
  /\ terminals' = [terminals EXCEPT ![c] = size]
  /\ UNCHANGED <<game, client_counter, chans, dead, closing, tick_pc, pending,
                 slept, target, outq, shown>>

\* the session task of c writes one queued frame out to its client
SessionSend(c) ==
  /\ Ready(c)
  /\ outq[c] > 0
  /\ outq' = [outq EXCEPT ![c] = @ - 1]
  /\ UNCHANGED <<game, terminals, client_counter, chans, dead, closing, tick_pc,
                 pending, slept, target, shown>>

\* the connection of c is lost without a channel close: its session ends and
\* no handler runs, so its seat and its terminal stay
ConnectionLost(c) ==
  /\ Ready(c)
  /\ chans[c] > 0
  /\ dead' = dead \cup {c}
  /\ outq' = [outq EXCEPT ![c] = 0]
  /\ UNCHANGED <<game, terminals, client_counter, chans, closing, tick_pc,
                 pending, slept, target, shown>>

\* d ms pass while the tick loop sleeps (it wakes at most MaxGap after it slept)
Advance(d) ==
  /\ tick_pc = "sleep"
  /\ slept + d <= MaxGap
  /\ slept' = slept + d
  /\ game' = Elapse(game, d)
  /\ UNCHANGED <<terminals, client_counter, chans, dead, closing, tick_pc, pending,
                 target, outq, shown>>

\* the points played are within the bound of the exploration
InPlay(g) == g.score[0] + g.score[1] <= MaxScore

\* tick loop: the sleep is over; game.lock().await.update()
TickUpdate ==
  /\ tick_pc = "sleep"
  /\ slept >= TICK_PERIOD
  /\ game' = update(game)
  /\ InPlay(game')
  /\ tick_pc' = "lock"
  /\ UNCHANGED <<terminals, client_counter, chans, dead, closing, pending, slept,
                 target, outq, shown>>

\* tick loop: terminals.lock().await.values_mut()
TickLockTerminals ==
  /\ tick_pc = "lock"
  /\ pending' = {c \in Clients : terminals[c] # NoTerminal}
  /\ tick_pc' = "draw"
  /\ UNCHANGED <<game, terminals, client_counter, chans, dead, closing, slept,
                 target, outq, shown>>

\* tick loop: the iterator yields the next terminal; game.lock().await
TickLockGame(c) ==
  /\ tick_pc = "draw"
  /\ c \in pending
  /\ pending' = pending \ {c}
  /\ target' = c
  /\ tick_pc' = "render"
  /\ UNCHANGED <<game, terminals, client_counter, chans, dead, closing, slept,
                 outq, shown>>

\* Game::render_ref: what a frame shows of the game
View(g) ==
  [score |-> g.score, ball |-> g.ball,
   left_paddle |-> g.left_paddle, right_paddle |-> g.right_paddle]

\* Handle::data of the session of c: Err when the session is over
Handle_data(c) == c \notin dead

\* a flush that returns the error of the send
TerminalHandle_flush_ReturnsError(sent) == sent

\* TerminalHandle::flush: the result of the send is printed, not returned
TerminalHandle_flush(sent) == TRUE

\* Game::draw: the Result of Terminal::draw, whose writes end in flush
Game_draw(sent) == TerminalHandle_flush(sent)

\* tick loop: Game::draw on the terminal of target and unwrap(); the flush
\* blocks on the send to the session of target, which waits for room in its
\* queue; the game guard is dropped at the end of the statement
TickDraw ==
  /\ tick_pc = "render"
  /\ Handle_data(target) => outq[target] < QueueCap
  /\ outq' = IF Handle_data(target) THEN [outq EXCEPT ![target] = @ + 1] ELSE outq
  /\ shown' = shown \cup {View(game)}
  /\ target' = None
  /\ tick_pc' = IF Game_draw(Handle_data(target)) THEN "draw" ELSE "panicked"
  /\ UNCHANGED <<game, terminals, client_counter, chans, dead, closing, pending,
                 slept>>

\* tick loop: the for loop ends, the terminals guard is dropped, sleep(16 ms)
TickUnlock ==
  /\ tick_pc = "draw"
  /\ pending = {}
  /\ tick_pc' = "sleep"
  /\ slept' = 0
  /\ shown' = {}
  /\ UNCHANGED <<game, terminals, client_counter, chans, dead, closing, pending,
                 target, outq>>

\* both paddles within MaxReach moves of the centre
InReach(g) ==
  /\ Abs(g.left_paddle.pos.y - Scale \div 2) <= MaxReach * MOVE_DELTA
  /\ Abs(g.right_paddle.pos.y - Scale \div 2) <= MaxReach * MOVE_DELTA

(***************************************************************************)
(* SpecSeats: connections, their channels and the seats, with paddle       *)
(* input; the clock stands still and no client asks for a pty.             *)
(***************************************************************************)
NextSeats ==
  \/ NewClient(MaxClients)
  \/ \E c \in Clients : ChannelOpenSession(c)
  \/ \E c \in Clients : ChannelCloseGame(c)
  \/ \E c \in Clients : ChannelCloseTerminals(c)
  \/ \E c \in Clients, key \in Keys : Data(c, key) /\ InReach(game')

SpecSeats == Init /\ [][NextSeats]_vars

(***************************************************************************)
(* SpecGame: the game under connects, disconnects, input, the passing of   *)
(* time and ticks, when no client asks for a pty (the registry of          *)
(* terminals stays empty).                                                 *)
(***************************************************************************)
NextGame ==
  \/ NewClient(MaxPlayers)
  \/ \E c \in Clients : ChannelOpenSession(c)
  \/ \E c \in Clients : ChannelCloseGame(c)
  \/ \E c \in Clients : ChannelCloseTerminals(c)
  \/ \E c \in Clients, key \in Keys : Data(c, key) /\ InReach(game')
  \/ \E d \in Deltas : Advance(d)
  \/ TickUpdate
  \/ TickLockTerminals
  \/ TickUnlock

SpecGame == Init /\ [][NextGame]_vars

(***************************************************************************)
(* SpecMatch: as SpecGame with MaxClients connections, each holding at     *)
(* most one session channel at a time, as an ssh client does.              *)
(***************************************************************************)
NextMatch ==
  \/ NewClient(MaxClients)
  \/ \E c \in Clients : ChannelOpenSession(c) /\ chans[c] = 0
  \/ \E c \in Clients : ChannelCloseGame(c)
  \/ \E c \in Clients : ChannelCloseTerminals(c)
  \/ \E c \in Clients, key \in Keys : Data(c, key) /\ InReach(game')
  \/ \E d \in Deltas : Advance(d)
  \/ TickUpdate
  \/ TickLockTerminals
  \/ TickUnlock

SpecMatch == Init /\ [][NextMatch]_vars

\* the tick loop keeps running (with no terminal registered it never waits
\* in a draw) and the clock keeps going
SpecMatchFair ==
  /\ SpecMatch
  /\ WF_vars(TickUpdate)
  /\ WF_vars(TickLockTerminals)
  /\ WF_vars(TickUnlock)
  /\ WF_vars(\E d \in Deltas : Advance(d))

(***************************************************************************)
(* SpecPaddle: seats and paddle input alone, with the paddles free to      *)
(* travel the whole field.                                                 *)
(***************************************************************************)
NextPaddle ==
  \/ NewClient(MaxPlayers)
  \/ \E c \in Clients : ChannelOpenSession(c)
  \/ \E c \in Clients : ChannelCloseGame(c)
  \/ \E c \in Clients : ChannelCloseTerminals(c)
  \/ \E c \in Clients, key \in Keys : Data(c, key)

SpecPaddle == Init /\ [][NextPaddle]_vars

(***************************************************************************)
(* SpecServer: the whole server with MaxPlayers connections of one session *)
(* channel each, up to the end of the hold of a match start: terminals of  *)
(* one viewport are attached and drawn to, sessions write frames out or    *)
(* fall behind, and connections are closed or lost.                        *)
(***************************************************************************)
NextServer ==
  \/ NewClient(MaxPlayers)
  \/ \E c \in Clients : ChannelOpenSession(c) /\ chans[c] = 0
  \/ \E c \in Clients : ChannelCloseGame(c)
  \/ \E c \in Clients : ChannelCloseTerminals(c)
  \/ \E c \in Clients, key \in Keys : Data(c, key) /\ InReach(game')
  \/ \E c \in Clients : PtyRequest(c, Viewport)
  \/ \E c \in Clients : WindowChangeRequest(c, Viewport)
  \/ \E c \in Clients : SessionSend(c)
  \/ \E c \in Clients : ConnectionLost(c)
  \/ \E d \in Deltas : Advance(d) /\ Holding(game')
  \/ TickUpdate
  \/ TickLockTerminals
  \/ \E c \in Clients : TickLockGame(c)
  \/ TickDraw
  \/ TickUnlock

SpecServer == Init /\ [][NextServer]_vars

(***************************************************************************)
(* SpecServerFair: SpecServer with the scheduling of the runtime.  The     *)
(* tick task and a handler that is inside a call are tasks of the runtime: *)
(* each takes its next step when it can (the mutexes are fair), and time   *)
(* passes.  What clients do, and when a session writes a frame out to its  *)
(* client, is up to the clients and the network: no fairness.              *)
(***************************************************************************)
TickFair ==
  /\ WF_vars(TickUpdate)
  /\ WF_vars(TickLockTerminals)
  /\ WF_vars(\E c \in Clients : TickLockGame(c))
  /\ WF_vars(TickDraw)
  /\ WF_vars(TickUnlock)

SpecServerFair ==
  /\ SpecServer
  /\ TickFair
  /\ WF_vars(\E d \in Deltas : Advance(d) /\ Holding(game'))
  /\ \A c \in Clients : SF_vars(ChannelCloseTerminals(c))

(***************************************************************************)
(* SpecRally: the tick loop on a match in play.  The rally starts from any *)
(* of a grid of ball positions and velocities and of paddle positions,     *)
(* with connections 1 and 2 seated, the hold over and the score at (0,0).  *)
(* Time passes in the amounts of Deltas; a single tick period is explored   *)
(* from the positions of the grid.                                         *)
(***************************************************************************)
BallXs == {0, 2000, 50000, 98000}
BallYs == {3000, 50000, 57500, 97000}
BallVxs == {-26, 26}
BallVys == {-69, -23, 0, 23, 69}
PaddleYs == {HEIGHT \div 2, Scale \div 2, Scale - HEIGHT \div 2}
\* time since the last update when the rally is taken up, ms: none, or the
\* length of a tick that was held up
Elapsed == {0, 3000}

RallyGames ==
  {[Game_new EXCEPT !.ball = [pos |-> Point(x, y), vel |-> Velocity(vx, vy)],
                    !.left_paddle.pos.y = l,
                    !.right_paddle.pos.y = r,
                    !.serve_time = SERVE_DURATION,
                    !.last_update = e,
                    !.clients = [i \in {0, 1} |-> i + 1]] :
     x \in BallXs, y \in BallYs, vx \in BallVxs, vy \in BallVys,
     l \in PaddleYs, r \in PaddleYs, e \in Elapsed}

InitRally ==
  /\ game \in RallyGames
  /\ terminals = [c \in Clients |-> NoTerminal]
  /\ client_counter = 2
  /\ chans = [c \in Clients |-> IF c <= 2 THEN 1 ELSE 0]
  /\ dead = {}
  /\ closing = {}
  /\ tick_pc = "sleep"
  /\ pending = {}
  /\ slept = 0
  /\ target = None
  /\ outq = [c \in Clients |-> 0]
  /\ shown = {}

NextRally ==
  \/ \E d \in Deltas : Advance(d)
  \/ Advance(TICK_PERIOD) /\ slept = 0 /\ game.ball.pos.x \in BallXs
  \/ TickUpdate
  \/ TickLockTerminals
  \/ TickUnlock

SpecRally == InitRally /\ [][NextRally]_vars

(***************************************************************************)
(* SpecRallySeats: the same rallies while the two connections close and    *)
(* open their channels again (a seat is left, a seat is taken, the match   *)
(* is reset), from the part of the grid where an update has just run and   *)
(* the right paddle is in the middle.                                      *)
(***************************************************************************)
InitRallySeats ==
  /\ InitRally
  /\ game.last_update = 0
  /\ game.right_paddle.pos.y = Scale \div 2

NextRallySeats ==
  \/ NextRally
  \/ \E c \in Clients : ChannelOpenSession(c) /\ chans[c] = 0
  \/ \E c \in Clients : ChannelCloseGame(c)
  \/ \E c \in Clients : ChannelCloseTerminals(c)

SpecRallySeats == InitRallySeats /\ [][NextRallySeats]_vars

(***************************************************************************)
(* SpecTargets: the registry of terminals under connects, disconnects,     *)
(* paddle input, pty requests and window changes with either viewport;     *)
(* the tick loop sleeps and the clock stands still.                        *)
(***************************************************************************)
NextTargets ==
  \/ NewClient(MaxClients)
  \/ \E c \in Clients : ChannelOpenSession(c) /\ chans[c] = 0
  \/ \E c \in Clients : ChannelCloseGame(c)
  \/ \E c \in Clients : ChannelCloseTerminals(c)
  \/ \E c \in Clients, key \in Keys : Data(c, key) /\ InReach(game')
  \/ \E c \in Clients, size \in Sizes : PtyRequest(c, size)
  \/ \E c \in Clients, size \in Sizes : WindowChangeRequest(c, size)

SpecTargets == Init /\ [][NextTargets]_vars

(***************************************************************************)
(* Properties                                                              *)
(***************************************************************************)
Zero == [i \in {0, 1} |-> 0]
Full(g) == g.clients[0] # None /\ g.clients[1] # None
Seated(g, c) == g.clients[0] = c \/ g.clients[1] = c
Half == Scale \div 2

\* ids a caller may pass: those of the connections and one no connection has
Ids == 1..(MaxClients + 1)

\* the step is a channel_open_session of c that returned Ok
Opened(c) == chans'[c] = chans[c] + 1
\* the step is a channel_open_session of c that returned Err
Rejected(c) == c \notin dead /\ c \in dead'
\* the step is the disconnect_player call of c's channel_close
Disconnected(c) == c \notin closing /\ c \in closing'
\* the step is the return of c's channel_close
Closed(c) == c \in closing /\ c \notin closing'
\* the step is the tick loop's call of Game::update
Updated == tick_pc = "sleep" /\ tick_pc' = "lock"

\* C1: a successful connect of c puts c in seat 0 if seat 0 is empty, otherwise
\* in seat 1 (then empty), and leaves the other seat's occupant in place; so on
\* an empty game the first connect gets seat 0 and the second gets seat 1.
C1_LowestEmptySeat ==
  [][\A c \in Clients : Opened(c) =>
        IF game.clients[0] = None
        THEN game'.clients[0] = c /\ game'.clients[1] = game.clients[1]
        ELSE /\ game.clients[1] = None
             /\ game'.clients[1] = c
             /\ game'.clients[0] = game.clients[0]]_vars

\* connection 3 was given seat 0, freed by connection 1, next to connection 2
\* which kept seat 1
C1_Witness == game.clients[0] = 3 /\ game.clients[1] = 2

\* C2: a connect attempted while both seats are occupied fails, and a failed
\* connect leaves every field of the game as it was (seats, score, ball,
\* paddles, serve deadline, last-tick timestamp); a connect fails only then.
C2_FullConnectChangesNothing ==
  [][\A c \in Clients :
        /\ (ChannelOpenSession(c) /\ Full(game)) => (Rejected(c) /\ game' = game)
        /\ Rejected(c) => (Full(game) /\ game' = game)]_vars

\* a connect was refused while a rally was on
C2_Witness == dead # {} /\ Full(game) /\ game.ball.pos # CENTER

\* C3: a connection that opens a session while both seats are occupied by
\* others is not rejected: the channel open returns Ok, the connection stays
\* up and holds no seat.
C3_FullOpenAccepted ==
  [][\A c \in Clients :
        (ChannelOpenSession(c) /\ Full(game) /\ ~Seated(game, c)) =>
           (Opened(c) /\ c \notin dead' /\ game'.clients = game.clients)]_vars

\* C4: a successful connect that leaves both seats occupied sets the score to
\* (0,0) and serves; one that leaves a seat empty changes neither the score,
\* the ball nor the serve deadline; and a score is reset by nothing else.
C4_ResetIffBothSeated ==
  [][/\ \A c \in Clients : Opened(c) =>
           IF Full(game')
           THEN /\ game'.score = Zero
                /\ game'.ball.pos = CENTER
                /\ game'.ball.vel = game.ball.vel
                /\ game'.serve_time = 0
                /\ game'.last_update = None
           ELSE /\ game'.score = game.score
                /\ game'.ball = game.ball
                /\ game'.serve_time = game.serve_time
                /\ game'.last_update = game.last_update
     /\ (game.score # Zero /\ game'.score = Zero) =>
           (Full(game') /\ \E c \in Clients : Opened(c))]_vars

\* a match was restarted by a connect after a point had been played (the ball
\* goes down only after the bounce off the top wall, in the update that scores)
C4_Witness ==
  /\ Full(game) /\ game.score = Zero /\ game.serve_time = 0
  /\ game.ball.vel.y = 23

\* the seat disconnect_player(c) clears: the first one that holds c
SeatOf(g, c) == IF g.clients[0] = c THEN 0 ELSE 1

\* the disconnect_player call of channel_close frees one seat of c and changes
\* no other field; with an id that holds no seat it changes nothing
C5_Frame ==
  [][\A c \in Clients : Disconnected(c) =>
        /\ [game' EXCEPT !.clients = game.clients] = game
        /\ IF Seated(game, c)
           THEN \E i \in {0, 1} :
                  /\ game.clients[i] = c
                  /\ game'.clients = [game.clients EXCEPT ![i] = None]
           ELSE game' = game]_vars

C5_NoSeatNoChange ==
  \A d \in Ids : ~Seated(game, d) => disconnect_player(game, d) = game

\* C5 as claimed: disconnect_player(c) frees c's seat and changes nothing else,
\* with an unseated id it changes nothing, and the next successful connect
\* fills the freed seat.
C5_NextConnectFillsFreedSeat ==
  /\ C5_Frame
  /\ [](/\ C5_NoSeatNoChange
        /\ \A c \in Clients, d \in Ids : Seated(game, c) =>
              LET r == connect_player(disconnect_player(game, c), d)
              IN  r.ok => r.game.clients[SeatOf(game, c)] = d)

\* C5 amended: disconnect_player(c) frees c's seat and changes nothing else,
\* with an unseated id it changes nothing, and the next successful connect
\* fills the freed seat if that is seat 0 or seat 0 is occupied; if seat 1 was
\* freed while seat 0 is empty it fills seat 0 and seat 1 stays empty.
C5_NextConnectFillsLowestSeat ==
  /\ C5_Frame
  /\ [](/\ C5_NoSeatNoChange
        /\ \A c \in Clients, d \in Ids : Seated(game, c) =>
              LET i == SeatOf(game, c)
                  r == connect_player(disconnect_player(game, c), d)
              IN  /\ r.ok
                  /\ IF i = 0 \/ game.clients[0] # None
                     THEN r.game.clients[i] = d
                     ELSE r.game.clients[0] = d /\ r.game.clients[1] = None)

\* of two connections, connection 1 has just left seat 0 after a point was
\* played and the score is kept; connection 2 holds seat 1 next to an empty
\* seat 0
C5_Witness ==
  /\ client_counter = 2 /\ 1 \in closing
  /\ game.clients[0] = None /\ game.clients[1] = 2
  /\ game.score # Zero

\* C6: when channel_close of connection c returns, c occupies neither seat,
\* c can no longer move a paddle and c has no terminal in the registry.
C6_ClosedHoldsNothing ==
  [][\A c \in Clients : Closed(c) =>
        /\ ~Seated(game', c)
        /\ move_up(game', c) = game' /\ move_down(game', c) = game'
        /\ terminals'[c] = NoTerminal]_vars

\* C7: move_up and move_down called by a connection in seat 0 change only the
\* left paddle's y, by one in seat 1 only the right paddle's y, and with an id
\* in neither seat nothing; ball, score, seats, serve deadline, last-tick
\* timestamp, the other paddle and both paddles' x are unchanged.
C7_MoveBySeat ==
  /\ [][\A c \in Clients, key \in {"w", "s"} : Data(c, key) =>
          /\ game'.ball = game.ball
          /\ game'.score = game.score
          /\ game'.clients = game.clients
          /\ game'.serve_time = game.serve_time
          /\ game'.last_update = game.last_update
          /\ game'.left_paddle.pos.x = game.left_paddle.pos.x
          /\ game'.right_paddle.pos.x = game.right_paddle.pos.x
          /\ IF game.clients[0] = c
             THEN game'.right_paddle = game.right_paddle
             ELSE IF game.clients[1] = c
             THEN game'.left_paddle = game.left_paddle
             ELSE game' = game]_vars
  /\ [](\A d \in Ids : ~Seated(game, d) =>
          (move_up(game, d) = game /\ move_down(game, d) = game))

\* in a rally, the left paddle was moved up and the right paddle down
C7_Witness ==
  /\ game.left_paddle.pos.y = Half - MOVE_DELTA
  /\ game.right_paddle.pos.y = Half + MOVE_DELTA
  /\ game.ball.pos # CENTER

PaddleLow == HEIGHT \div 2
PaddleHigh == Scale - HEIGHT \div 2
InRange(p) == PaddleLow <= p.pos.y /\ p.pos.y <= PaddleHigh

\* the y a paddle at y has after a move by delta (negative: up)
Clamped(y, delta) ==
  IF y + delta < PaddleLow THEN PaddleLow
  ELSE IF y + delta > PaddleHigh THEN PaddleHigh
  ELSE y + delta

\* C8: from y = 0.5, after any sequence of moves each paddle's y is within
\* [0.075, 0.925]; a move changes the y of the mover's paddle by exactly 0.025
\* unless that would leave the range, and then y is set to the bound.
C8_PaddleClamped ==
  /\ [](InRange(game.left_paddle) /\ InRange(game.right_paddle))
  /\ [][\A c \in Clients, key \in {"w", "s"} : (Data(c, key) /\ Seated(game, c)) =>
          LET delta == IF key = "w" THEN -MOVE_DELTA ELSE MOVE_DELTA
          IN  IF game.clients[0] = c
              THEN game'.left_paddle.pos.y = Clamped(game.left_paddle.pos.y, delta)
              ELSE game'.right_paddle.pos.y = Clamped(game.right_paddle.pos.y, delta)]_vars

\* the left paddle is at the upper bound and the right paddle at the lower one
C8_Witness ==
  /\ game.left_paddle.pos.y = PaddleLow
  /\ game.right_paddle.pos.y = PaddleHigh

\* a serve was made less than SERVE_DURATION ago
Waiting(g) == g.serve_time # None /\ g.serve_time < SERVE_DURATION

\* C9: an update called less than 1500 ms after the latest serve changes
\* nothing (ball, score, serve deadline, last-tick timestamp), and during that
\* time the last-tick timestamp is still cleared.
C9_UpdateNoOpWhileWaiting ==
  /\ [](Waiting(game) => game.last_update = None)
  /\ [][(Updated /\ Waiting(game)) => game' = game]_vars

\* update has just run 500 ms after a match start
C9_Witness ==
  /\ tick_pc = "lock" /\ Full(game) /\ game.serve_time = 500
  /\ game.score = Zero

\* the velocity the ball has after the physics step of this update
VelAfterStep(g) ==
  Ball_update(g.ball, IF g.last_update = None THEN 0 ELSE g.last_update,
              g.left_paddle, g.right_paddle).vel

\* C10: every serve (by a score in update, by a match start in connect) puts
\* the ball at (0.5, 0.5), keeps the velocity it had just before the serve,
\* starts a new hold and clears the last-tick timestamp; the first update after
\* the hold leaves the ball at the centre.
C10_Serve ==
  [][/\ (Updated /\ game'.score # game.score) =>
           /\ game'.ball.pos = CENTER
           /\ game'.ball.vel = VelAfterStep(game)
           /\ game'.serve_time = 0
           /\ game'.last_update = None
     /\ (\E c \in Clients : Opened(c) /\ Full(game')) =>
           /\ game'.ball.pos = CENTER
           /\ game'.ball.vel = game.ball.vel
           /\ game'.serve_time = 0
           /\ game'.last_update = None
     /\ (Updated /\ game.serve_time = SERVE_DURATION /\ game.last_update = None) =>
           /\ game'.ball = game.ball
           /\ game'.ball.pos = CENTER
           /\ game'.last_update = 0]_vars

\* the first update after the hold that followed a point has just run
C10_Witness ==
  /\ tick_pc = "lock" /\ game.last_update = 0 /\ game.ball.pos = CENTER
  /\ game.score[0] = 1

\* the ball after the physics step of Game::update on g
BallAfterStep(g) ==
  Ball_update(g.ball, IF g.last_update = None THEN 0 ELSE g.last_update,
              g.left_paddle, g.right_paddle)

\* the ball has been served: it is at the centre and a new hold has begun
Served(g) == g.ball.pos = CENTER /\ g.serve_time = 0 /\ g.last_update = None

\* C11: in an update past the hold, if the ball's x after the physics step is
\* below 0 the right seat's score grows by 1, the left seat's is unchanged and a
\* serve follows; if it is above 1 the left seat's score grows by 1, the right
\* seat's is unchanged and a serve follows; otherwise the score is unchanged and
\* no serve happens.  A ball that crosses x = 0 outside the left paddle's range
\* scores for the right seat.  No update changes both scores.
C11_ScoringRule ==
  [][(Updated /\ ~Holding(game)) =>
        LET b == BallAfterStep(game)
            x1 == game.ball.pos.x + game.ball.vel.x * game.last_update
        IN  /\ b.pos.x < 0 =>
                 /\ game'.score[1] = game.score[1] + 1
                 /\ game'.score[0] = game.score[0]
                 /\ Served(game')
            /\ b.pos.x > Scale =>
                 /\ game'.score[0] = game.score[0] + 1
                 /\ game'.score[1] = game.score[1]
                 /\ Served(game')
            /\ (b.pos.x >= 0 /\ b.pos.x <= Scale) =>
                 /\ game'.score = game.score
                 /\ game'.ball = b
                 /\ game'.serve_time = game.serve_time
                 /\ game'.last_update = 0
            /\ (game.last_update # None /\ x1 < 0
                /\ ~Hits(game.left_paddle, b.pos.y)) =>
                 game'.score[1] = game.score[1] + 1
            /\ (game'.score[0] = game.score[0] \/ game'.score[1] = game.score[1])]_vars

\* the update has just given the right seat a point: the ball left by the left
\* edge past the left paddle
C11_Witness ==
  /\ tick_pc = "lock" /\ game.score[0] = 0 /\ game.score[1] = 1
  /\ Served(game)
\* the step is the passing of time, which ages the instants the game holds
Aged == slept' > slept

\* the step gives the score, the ball position or the serve deadline a new value
Rewritten ==
  \/ game'.score # game.score
  \/ game'.ball.pos # game.ball.pos
  \/ (~Aged /\ game'.serve_time # game.serve_time)

\* C12 as claimed: the score, the ball position and the serve deadline are
\* changed by the update of a tick only, never by a step of a connection
\* handler.
C12_OnlyTickWrites == [][Rewritten => Updated]_vars

\* C12 amended: the score, the ball position and the serve deadline are changed
\* only by the update of a tick or by the channel open of a connection that
\* takes the last empty seat (the match start); no other step of a handler
\* changes them.
C12_OnlyTickOrMatchStartWrites ==
  [][Rewritten => (Updated \/ \E c \in Clients : Opened(c) /\ Full(game'))]_vars

\* a match was started by a connect while the tick loop had been asleep for
\* 500 ms: the serve is younger than the sleep, so it is not an update's
C12_Witness ==
  /\ Full(game) /\ game.serve_time = 0
  /\ tick_pc = "sleep" /\ slept = 500
\* C13: within one tick every terminal is drawn from the same state of the
\* game: the draws of one run of the draw loop show one view (score, ball,
\* paddles), whatever the handlers do meanwhile.
C13_OneSnapshotPerTick == [](Cardinality(shown) <= 1)
\* C14: no task holds the game lock and the terminals lock at the same time.
\* (A handler holds a lock within one step only, and channel_close is between
\* its two locks while c is in closing; the tick loop is the task whose locks
\* span steps.)
C14_LocksNeverNested == [](GameFree \/ TerminalsFree)
\* C16: a client that is slow or gone cannot stall the tick: every write of
\* the draw loop to a terminal completes, the tick loop always gets back to its
\* sleep, and a handler waiting for the terminals lock (channel_close before
\* its remove) gets it.
C16_SlowClientCannotStall ==
  /\ (tick_pc = "render") ~> (tick_pc = "draw")
  /\ []<>(tick_pc = "sleep")
  /\ \A c \in Clients : (c \in closing) ~> (c \notin closing)
\* C15: the two locks never deadlock: every task that waits for a lock gets
\* it.  The tick loop waits for the terminals lock before its for loop and for
\* the game lock before every draw; channel_close waits for the terminals lock
\* while c is in closing.  (The other handlers take one lock within one step.)
C15_LocksNeverDeadlock ==
  /\ (tick_pc = "lock") ~> (tick_pc = "draw")
  /\ (tick_pc = "draw" /\ pending # {}) ~> (tick_pc = "render")
  /\ \A c \in Clients : (c \in closing) ~> (c \notin closing)
\* the draw loop waits in a flush for room in the queue of a live session
Stalled ==
  tick_pc = "render" /\ Handle_data(target) /\ outq[target] = QueueCap

C18_SchedulerNeverStops ==
  /\ \A c \in Clients : (chans[c] > 0) ~> (tick_pc = "sleep")
  /\ \A c \in Clients : (c \in closing) ~> (tick_pc = "sleep")
  /\ [][(Updated /\ ~Holding(game)) =>
          (game'.ball # game.ball \/ game'.score # game.score)]_vars
\* connection c can deliver a data event
Sending(c) == Ready(c) /\ chans[c] > 0

\* C19: for every connection that sends input, "w" and Up give move_up for
\* that connection, "s" and Down give move_down for it, and Ctrl-C, Ctrl-Q and
\* Esc close its channel and leave the game as it is.
C19_InputMapping ==
  \A c \in Clients : Sending(c) =>
    /\ \A key \in {"w", "Up"} : data(game, c, key) = move_up(game, c)
    /\ \A key \in {"s", "Down"} : data(game, c, key) = move_down(game, c)
    /\ \A key \in {"Ctrl-C", "Ctrl-Q", "Esc"} :
         SessionClose(key) /\ data(game, c, key) = game

\* the payloads that reach the default arm of the match in AppHandler::data
Unmatched == Keys \ {"w", "s", "q"}

\* C20: a data event whose payload the handler does not recognise is ignored:
\* it asks for no close of the channel, gives the game back as it was, and the
\* step leaves the game and its seats, the terminals, the channels of the
\* connection and the liveness of its session (the handler returned Ok) alone.
C20_UnrecognizedIgnored ==
  /\ [](\A c \in Clients, key \in Unmatched : Sending(c) =>
          ~SessionClose(key) /\ data(game, c, key) = game)
  /\ [][\A c \in Clients, key \in Unmatched : Data(c, key) =>
          UNCHANGED <<game, terminals, chans, dead, closing>>]_vars

\* connection 1 holds seat 0 next to connection 2, has a terminal and an open
\* channel, and its paddle has room to move either way
C20_Witness ==
  /\ Sending(1) /\ game.clients[0] = 1 /\ game.clients[1] = 2
  /\ terminals[1] # NoTerminal
  /\ GameFree
  /\ move_up(game, 1) # game /\ move_down(game, 1) # game
\* the step is an insert into or a remove from the registry for connection c
Retargeted(c) == terminals'[c] # terminals[c]

\* C21, the part about the registry: a pty request, a window change and the
\* removal of a terminal change no field of the game; the registry holds for
\* each connection id no terminal or one; a pty request and a window change
\* put the reported viewport in the place of the connection's terminal; and a
\* change of one connection's terminal leaves the others' terminals alone.
C21_RegistryApartFromGame ==
  /\ [](\A c \in Clients : terminals[c] = NoTerminal \/ terminals[c] \in Sizes)
  /\ [][\A c \in Clients :
          /\ Retargeted(c) =>
               game' = game /\ \A d \in Clients \ {c} : terminals'[d] = terminals[d]
          /\ \A size \in Sizes :
               (PtyRequest(c, size) \/ WindowChangeRequest(c, size)) =>
                  game' = game /\ terminals'[c] = size]_vars

\* C21: the above, and a connection that holds no seat can attach a terminal:
\* a connection that opened its session while others hold both seats is up
\* and holds a channel on which it can ask for a pty.
C21_TargetLifecycle ==
  /\ C21_RegistryApartFromGame
  /\ [][\A c \in Clients :
          (ChannelOpenSession(c) /\ Full(game) /\ ~Seated(game, c)) =>
             (c \notin dead' /\ chans'[c] > 0)]_vars
\* the connection in seat i can deliver a data event
SeatSending(i) == \E c \in Clients : game.clients[i] = c /\ Sending(c)

Stepped == Updated /\ ~Holding(game)

\* the time the physics step of the update integrates over, ms
Duration(g) == IF g.last_update = None THEN 0 ELSE g.last_update

\* the update bounced the ball off a paddle (vel.x changes by nothing else)
PaddleBounced == game'.ball.vel.x # game.ball.vel.x

\* C23: in the physics step, with y1 the integrated y: if y1 < 0 the position
\* is reflected about 0, if y1 > 1 about 1, and otherwise kept; unless a paddle
\* bounce in the same update picks a new vel.y, the update leaves vel.y negated
\* in the first two cases and unchanged in the third, so |vel.y| is kept and
\* the sign flips once.  (The position is read where no serve followed.)
C23_WallBounce ==
  [][Stepped =>
       LET y1 == game.ball.pos.y + game.ball.vel.y * Duration(game)
           y2 == IF y1 < 0 THEN -y1 ELSE IF y1 > Scale THEN 2 * Scale - y1 ELSE y1
       IN  /\ game'.score = game.score => game'.ball.pos.y = y2
           /\ ~PaddleBounced =>
                /\ (y1 < 0 \/ y1 > Scale) => game'.ball.vel.y = -game.ball.vel.y
                /\ (0 <= y1 /\ y1 <= Scale) => game'.ball.vel.y = game.ball.vel.y
                /\ Abs(game'.ball.vel.y) = Abs(game.ball.vel.y)]_vars

\* from (0.5, 0.03) with velocity (0.26, -0.69), 500 ms took the ball over the
\* top wall: it is at (0.63, 0.315) and moves down
C23_Witness ==
  /\ tick_pc = "lock" /\ game.last_update = 0 /\ game.score = Zero
  /\ game.ball = [pos |-> Point(63000, 31500), vel |-> Velocity(26, 69)]
\* C24: in the physics step, with x1 the integrated x and y2 the y after the
\* wall step: the ball bounces exactly when x1 < 0 and y2 lies strictly within
\* HEIGHT/2 of the left paddle's y, or x1 > 1 and y2 lies strictly within
\* HEIGHT/2 of the right paddle's y; a bounce reflects x about that edge,
\* negates vel.x and sets vel.y to VALID_Y[round(3 * (y2 - paddle.y) /
\* (HEIGHT/2)) + 3], an index within 0..6; without a bounce the ball is left
\* as the integration and the wall step made it.
C24_PaddleBounce ==
  [][Stepped =>
       LET b0   == game.ball
           x1   == b0.pos.x + b0.vel.x * Duration(game)
           y1   == b0.pos.y + b0.vel.y * Duration(game)
           y2   == IF y1 < 0 THEN -y1 ELSE IF y1 > Scale THEN 2 * Scale - y1 ELSE y1
           vyw  == IF y1 < 0 \/ y1 > Scale THEN -b0.vel.y ELSE b0.vel.y
           p    == IF x1 < 0 THEN game.left_paddle ELSE game.right_paddle
           hit  == /\ x1 < 0 \/ x1 > Scale
                   /\ p.pos.y - HEIGHT \div 2 < y2
                   /\ y2 < p.pos.y + HEIGHT \div 2
           idx  == Round(3 * (y2 - p.pos.y), HEIGHT \div 2) + 3
           b    == BallAfterStep(game)
       IN  /\ hit => /\ idx \in 0..6
                     /\ b.pos = Point(IF x1 < 0 THEN -x1 ELSE 2 * Scale - x1, y2)
                     /\ b.vel = Velocity(-b0.vel.x, VALID_Y[idx + 1])
           /\ ~hit => b.pos = Point(x1, y2) /\ b.vel = Velocity(b0.vel.x, vyw)
           /\ game'.ball.vel = b.vel
           /\ game'.score = game.score => game'.ball = b
           /\ PaddleBounced <=> hit]_vars

\* from (0.02, 0.03) with velocity (-0.26, 0), 500 ms took the ball past x = 0
\* at 0.045 above the middle of the left paddle (y = 0.075): it came back to
\* x = 0.11 with the second entry of the table as vel.y
C24_Witness ==
  /\ tick_pc = "lock" /\ game.last_update = 0 /\ game.score = Zero
  /\ game.left_paddle.pos.y = HEIGHT \div 2
  /\ game.ball = [pos |-> Point(11000, 3000), vel |-> Velocity(26, -46)]
\* the ball is at (0.0, 0.5) and the left paddle at (0.0, 0.5)
AtLeftPaddleCentre ==
  game.ball.pos = Point(0, Half) /\ game.left_paddle.pos = Point(0, Half)

\* C25 as claimed: with the ball at (0.0, 0.5) and the left paddle at
\* (0.0, 0.5), an update makes the ball bounce: the sign of vel.x flips and
\* vel.y becomes 0.0.
C25_ScenarioAsStated ==
  [][(Stepped /\ AtLeftPaddleCentre) =>
        /\ game'.ball.vel.x = -game.ball.vel.x
        /\ game'.ball.vel.y = 0]_vars

\* C25: with the ball at (0.0, 0.5) moving left, the left paddle at (0.0, 0.5)
\* and an update over a time dt > 0 short enough that the ball is still within
\* 0.0125 of the paddle's middle (|vel.y| * dt < HEIGHT / 12, as for every
\* table velocity over one tick period), the ball bounces off the paddle:
\* vel.x flips to positive and vel.y becomes 0.0 (table index 3).
C25_CentreBounce ==
  [][(/\ Stepped /\ AtLeftPaddleCentre
      /\ game.ball.vel.x < 0
      /\ Duration(game) > 0
      /\ 6 * Abs(game.ball.vel.y * Duration(game)) < HEIGHT \div 2) =>
        game'.ball.vel = Velocity(-game.ball.vel.x, 0)]_vars

\* from (0.0, 0.5) with velocity (-0.26, -0.23) one tick period took the ball
\* to the left paddle 0.00368 above its middle: it moves right with vel.y = 0
C25_Witness ==
  /\ tick_pc = "lock" /\ game.last_update = 0 /\ game.score = Zero
  /\ game.left_paddle.pos.y = Half
  /\ game.ball = [pos |-> Point(26 * TICK_PERIOD, Half - 23 * TICK_PERIOD),
                  vel |-> Velocity(26, 0)]
\* the physics runs: an update has set last_update since the latest serve
Rallying(g) == g.last_update # None
\* a serve has been made and the physics has not resumed since
WaitingToServe(g) == g.serve_time # None /\ g.last_update = None

\* C26: the game is rallying only after a serve; it starts to rally only by
\* an update that finds the latest serve at least SERVE_DURATION old, and stops
\* only by a serve, made either by an update whose ball left the field past
\* x < 0 or x > 1 (a point is scored) or by the connect that fills the second
\* seat (the score goes to (0,0)); and with the tick loop running and the
\* clock going, a game that waits to serve gets to rally unless a new serve
\* is made first.
C26_ServeRallyCycle ==
  /\ [](Rallying(game) => game.serve_time # None)
  /\ [][(~Rallying(game) /\ Rallying(game')) =>
          /\ Updated
          /\ WaitingToServe(game) /\ game.serve_time >= SERVE_DURATION]_vars
  /\ [][(Rallying(game) /\ ~Rallying(game')) =>
          /\ WaitingToServe(game') /\ game'.serve_time = 0
          /\ \/ /\ Updated
                /\ BallAfterStep(game).pos.x < 0 \/ BallAfterStep(game).pos.x > Scale
                /\ game'.score # game.score
             \/ /\ \E c \in Clients : Opened(c)
                /\ Full(game') /\ game'.score = Zero]_vars
  /\ WaitingToServe(game) ~> (Rallying(game) \/ game.serve_time = 0)

\* a point was played and, the hold after its serve over, the rally is on again
C26_Witness ==
  /\ Rallying(game) /\ game.score[0] + game.score[1] = 1
  /\ game.serve_time = SERVE_DURATION /\ game.ball.pos # CENTER
\* the values of Velocity::VALID_Y
ValidYs == {VALID_Y[i] : i \in 1..7}

\* C27: vel.y is always one of the seven table values and |vel.x| is always
\* 0.26; the velocity is changed by the physics step of an update and by
\* nothing else: vel.x changes only to its negative and only where the ball
\* bounces off a paddle, a serve after a point keeps the velocity the physics
\* step left, and a connect (with the serve of a match reset), a disconnect
\* and the passing of time leave the velocity as it is.
C27_VelocityInvariant ==
  /\ [](game.ball.vel.y \in ValidYs /\ Abs(game.ball.vel.x) = Abs(DEFAULT_INITIAL_VELOCITY.x))
  /\ [][/\ game'.ball.vel # game.ball.vel => Stepped
        /\ Stepped => game'.ball.vel = BallAfterStep(game).vel
        /\ PaddleBounced =>
             LET x1 == game.ball.pos.x + game.ball.vel.x * Duration(game)
                 y  == BallAfterStep(game).pos.y
             IN  /\ game'.ball.vel.x = -game.ball.vel.x
                 /\ \/ x1 < 0 /\ Abs(y - game.left_paddle.pos.y) < HEIGHT \div 2
                    \/ x1 > Scale /\ Abs(y - game.right_paddle.pos.y) < HEIGHT \div 2
        /\ \A c \in Clients : (Opened(c) \/ Disconnected(c) \/ Closed(c)) =>
             game'.ball.vel = game.ball.vel]_vars

\* a match reset has just served a ball that an earlier paddle bounce left
\* with the velocity (0.26, -0.46)
C27_Witness ==
  /\ game.ball.pos = CENTER /\ game.serve_time = 0 /\ game.score = Zero
  /\ game.ball.vel = Velocity(26, -46)
\* C28: seat 0 and seat 1 never hold the same connection id, so no match is
\* started (both seats taken, score reset, serve) with one player.
C28_NoDoubleSeating ==
  \A c \in Clients : ~(game.clients[0] = c /\ game.clients[1] = c)
\* the ball lies inside the playfield
InField(b) == 0 <= b.pos.x /\ b.pos.x <= Scale /\ 0 <= b.pos.y /\ b.pos.y <= Scale

\* C29: the ball lies inside the playfield in every state, whatever the time
\* between two updates, and an update in which the ball bounces off a paddle
\* leaves the score as it is.
C29_BallInsideField ==
  /\ [](InField(game.ball))
  /\ [][(Stepped /\ PaddleBounced) => game'.score = game.score]_vars
\* C30: a serve is first made by the connect that fills both seats, so no
\* serve has been made as long as the two seats were never occupied at once;
\* and while no serve has been made, whatever ticks, paddle moves, connects
\* and disconnects took place, the ball is at (0.5, 0.5) with the velocity
\* (0.26, -0.23), the score is (0,0) and last_update is unset.
C30_IdleUntilBothSeated ==
  /\ [](game.serve_time = None =>
          /\ game.ball = [pos |-> CENTER, vel |-> Velocity(26, -23)]
          /\ game.score = Zero
          /\ game.last_update = None)
  /\ [](Full(game) => game.serve_time # None)
  /\ [][(game.serve_time = None /\ game'.serve_time # None) =>
          (Full(game') /\ \E c \in Clients : Opened(c))]_vars

\* connection 2 took seat 0 while connection 1 is leaving, a second has gone
\* by, the tick loop has called update and the left paddle was moved, and no
\* serve was ever made
C30_Witness ==
  /\ game.serve_time = None
  /\ 1 \in closing /\ game.clients[0] = 2 /\ game.clients[1] = None
  /\ tick_pc = "lock" /\ slept = 1000
  /\ game.left_paddle.pos.y # Half
====
